---- MODULE Spec2Model ----
(***************************************************************************)
(* Sales & credit transaction engine of backend-tuAmigoFiel:               *)
(* salesService.createSale / updateSalePayment and                         *)
(* paymentsService.createPayment over the products, sales and payments     *)
(* collections.  Amounts, prices and quantities are integers.              *)
(***************************************************************************)
EXTENDS Integers, Sequences, FiniteSets, TLC

(* ------------------------------ bounds -------------------------------- *)
MaxSales    == 2      \* sales created
MaxPayments == 2      \* committed updateSalePayment transactions
MaxQty      == 2      \* largest quantity of a cart line
MaxAmount   == 3      \* largest payment amount / initial paid amount
MaxAlerts   == 4      \* most documents in the alerts collection

(* ------------------------- values and helpers ------------------------- *)
NULL == "null"

Max(a, b) == IF a >= b THEN a ELSE b
Min(a, b) == IF a <= b THEN a ELSE b

\* a nullable number is <<>> (null) or <<n>>
NoNum  == <<>>
Num(n) == <<n>>

\* JavaScript `a || b` on numbers: 0 is falsy
JsOr(a, b) == IF a # 0 THEN a ELSE b

RECURSIVE SumField(_, _)
SumField(s, f) == IF s = <<>> THEN 0 ELSE s[1][f] + SumField(Tail(s), f)

(* ------------------------------ catalog ------------------------------- *)
\* P1: native id, tracked stock; P2: legacy (non-ObjectId) id, tracked
\* stock; P3: native id, untracked stock; P4: legacy id, untracked stock
ProductIds == {"P1", "P2", "P3", "P4"}
NoProduct  == "X"                 \* a reference no product matches
ServiceId  == "S1"

InitStock == [k \in ProductIds |->
                 IF k \in {"P3", "P4"} THEN NoNum ELSE Num(3)]
Precio    == [k \in ProductIds |-> IF k = "P1" THEN 2 ELSE 1]
Cost      == [k \in ProductIds |-> 1]

\* isObjectId(String(product.id)): the shape of the normalized product id
isObjectId(k) == k \in {"P1", "P3", "C1"}

USE_SELL_PRICE_AS_COST == FALSE

\* customer ids a sale is created for: an ObjectId string, a legacy number,
\* or none
NativeCustomer == "C1"
LegacyCustomer == "7"

Procs == {1, 2}

VARIABLES
  stock,          \* products collection: product -> nullable stock
  sales,          \* sales collection: sale id -> sale document
  payments,       \* payments collection: sequence of payment documents
  paymentsReady,  \* paymentsService: mongoReady && PaymentModel
  created,        \* sale ids allocated so far
  ledger,         \* committed updateSalePayment transactions, in order
  opening,        \* sale id -> paid_amount stored at creation
  pc,             \* position of each request handler
  loc,            \* locals of each request handler
  result,         \* outcome of the handler's call
  alerts,         \* alerts collection: sequence of alert documents
  alertIndex      \* alertsService: indexes made by init, "none" before it

vars == <<stock, sales, payments, paymentsReady, created, ledger, opening,
          pc, loc, result, alerts, alertIndex>>

IdleLoc == [op |-> "none"]

(* --------------------------- product lookup --------------------------- *)
NotFound == [found |-> FALSE]      \* a lookup that returns null

\* productosService.obtenerProductoPorId: the product, read outside any
\* session, or null
obtenerProductoPorId(id) ==
  IF id \in ProductIds THEN [found |-> TRUE, id |-> id, stock |-> stock[id],
                             precio |-> Precio[id], cost |-> Cost[id]]
  ELSE NotFound

(* ----------------------------- createSale ----------------------------- *)
NoPrice == [k |-> "none"]
Price(n) == [k |-> "num", v |-> n]
NaNPrice == [k |-> "nan"]

CartItems ==
       { [id |-> "P1", type |-> "product", qty |-> q, precio |-> NoPrice] :
            q \in 1..MaxQty }
  \cup { [id |-> "P2", type |-> "product", qty |-> MaxQty, precio |-> NoPrice],
         [id |-> "P1", type |-> "product", qty |-> 0, precio |-> NoPrice],
         [id |-> NoProduct, type |-> "product", qty |-> 1, precio |-> NoPrice],
         [id |-> "P1", type |-> "product", qty |-> 1, precio |-> NaNPrice],
         [id |-> "P3", type |-> "product", qty |-> 1, precio |-> Price(-1)],
         [id |-> "P4", type |-> "product", qty |-> 1, precio |-> NoPrice],
         [id |-> ServiceId, type |-> "service", qty |-> 1, precio |-> Price(1)] }

\* the first lines of the two-line carts
LeadItems == { it \in CartItems : it.qty = MaxQty }

Carts == {<<>>} \cup { <<x>> : x \in CartItems }
                \cup { <<x, y>> : x \in LeadItems, y \in CartItems }
PaidAmounts == {-1, 0, 1, MaxAmount}

\* carts of one service line: totals 1 and MaxQty, no catalog access
ServiceCarts ==
  { <<[id |-> ServiceId, type |-> "service", qty |-> q, precio |-> Price(1)]>> :
      q \in {1, MaxQty} }

\* single-line carts of the two tracked products
ConcCarts == { <<[id |-> i, type |-> "product", qty |-> 1, precio |-> NoPrice]>> :
                 i \in {"P1", "P2"} }

Finish(p, res) ==
  /\ pc' = [pc EXCEPT ![p] = "done"]
  /\ result' = [result EXCEPT ![p] = res]

\* entry of createSale: empty-cart and negative-paid checks
CreateSale(p, cart, onCredit, paidAmount, customerId) ==
  /\ pc[p] = "idle"
  /\ created < MaxSales
  /\ LET l == [op |-> "sale", cart |-> cart, onCredit |-> onCredit,
               paid |-> paidAmount, customerId |-> customerId,
               idx |-> 1, items |-> <<>>,
               txInc |-> [k \in ProductIds |-> 0], txAborted |-> FALSE,
               current |-> NoNum, sale |-> 0, failed |-> FALSE,
               pre |-> [stock |-> stock, sales |-> sales]]
     IN /\ loc' = [loc EXCEPT ![p] = l]
        /\ IF Len(cart) = 0 THEN Finish(p, "EmptyCart")
           ELSE IF onCredit /\ paidAmount < 0 THEN Finish(p, "NegativePaid")
           ELSE /\ pc' = [pc EXCEPT ![p] = "validate"]
                /\ UNCHANGED result
  /\ UNCHANGED <<alerts, alertIndex>>
  /\ UNCHANGED <<stock, sales, payments, paymentsReady, created, ledger, opening>>

\* the error the validation of one cart entry raises, or "ok"
LineError(it, product) ==
  IF it.qty <= 0 THEN "InvalidQuantity"
  ELSE IF it.type = "product" /\ ~product.found THEN "ProductNotFound"
  ELSE IF it.type = "product" /\ product.stock # NoNum /\ product.stock[1] < it.qty
       THEN "InsufficientStock"
  ELSE IF it.precio.k = "nan" THEN "InvalidPrice"
  ELSE "ok"

\* the validation of one cart entry in the createSale that keeps the
\* SQLite fallback: the stock is read as Number(product.stock ?? 0)
LineErrorFallback(it, product) ==
  IF it.qty <= 0 THEN "InvalidQuantity"
  ELSE IF it.type = "product" /\ ~product.found THEN "ProductNotFound"
  ELSE IF it.type = "product"
          /\ (IF product.stock # NoNum THEN product.stock[1] ELSE 0) < it.qty
       THEN "InsufficientStock"
  ELSE IF it.precio.k = "nan" THEN "InvalidPrice"
  ELSE "ok"

\* PreparedLine with the quantity left out of line_total
PreparedLineUnitTotal(it, product) ==
  LET unitPrice == IF it.precio.k = "num" THEN it.precio.v
                   ELSE IF product.found THEN product.precio ELSE 0
      unitCost  == IF product.found THEN product.cost
                   ELSE IF USE_SELL_PRICE_AS_COST THEN unitPrice ELSE 0
  IN [type |-> it.type, id |-> it.id,
      product |-> IF product.found THEN product.id ELSE NULL,
      qty |-> it.qty, unitPrice |-> unitPrice, unitCost |-> unitCost,
      line_total |-> unitPrice]

\* the prepared line of a valid cart entry
PreparedLine(it, product) ==
  LET unitPrice == IF it.precio.k = "num" THEN it.precio.v
                   ELSE IF product.found THEN product.precio ELSE 0
      unitCost  == IF product.found THEN product.cost
                   ELSE IF USE_SELL_PRICE_AS_COST THEN unitPrice ELSE 0
  IN [type |-> it.type, id |-> it.id,
      product |-> IF product.found THEN product.id ELSE NULL,
      qty |-> it.qty, unitPrice |-> unitPrice, unitCost |-> unitCost,
      line_total |-> unitPrice * it.qty]

\* ValidateLine with the stock decrement moved into the validation loop
ValidateLineEager(p) ==
  /\ pc[p] = "validate"
  /\ LET it      == loc[p].cart[loc[p].idx]
         product == IF it.type = "product" THEN obtenerProductoPorId(it.id) ELSE NotFound
         err     == LineError(it, product)
     IN IF err # "ok"
        THEN /\ Finish(p, err)
             /\ UNCHANGED <<loc, stock>>
        ELSE /\ loc' = [loc EXCEPT ![p].items = Append(@, PreparedLine(it, product)),
                                   ![p].idx = IF @ = Len(loc[p].cart) THEN 1 ELSE @ + 1]
             /\ pc' = [pc EXCEPT ![p] =
                         IF loc[p].idx = Len(loc[p].cart) THEN "insert" ELSE "validate"]
             /\ stock' = IF product.found /\ product.stock # NoNum
                         THEN [stock EXCEPT ![it.id] = Num(@[1] - it.qty)] ELSE stock
             /\ UNCHANGED result
  /\ UNCHANGED <<alerts, alertIndex>>
  /\ UNCHANGED <<sales, payments, paymentsReady, created, ledger, opening>>

\* one iteration of the validation loop
ValidateLine(p) ==
  /\ pc[p] = "validate"
  /\ LET it      == loc[p].cart[loc[p].idx]
         product == IF it.type = "product" THEN obtenerProductoPorId(it.id) ELSE NotFound
         err     == LineError(it, product)
     IN IF err # "ok"
        THEN /\ Finish(p, err)
             /\ UNCHANGED loc
        ELSE /\ loc' = [loc EXCEPT ![p].items = Append(@, PreparedLine(it, product)),
                                   ![p].idx = IF @ = Len(loc[p].cart) THEN 1 ELSE @ + 1]
             /\ pc' = [pc EXCEPT ![p] =
                         IF loc[p].idx = Len(loc[p].cart) THEN "insert" ELSE "validate"]
             /\ UNCHANGED result
  /\ UNCHANGED <<alerts, alertIndex>>
  /\ UNCHANGED <<stock, sales, payments, paymentsReady, created, ledger, opening>>

\* one iteration of the validation loop of the createSale that keeps the
\* SQLite fallback
ValidateLineFallback(p) ==
  /\ pc[p] = "validate"
  /\ LET it      == loc[p].cart[loc[p].idx]
         product == IF it.type = "product" THEN obtenerProductoPorId(it.id) ELSE NotFound
         err     == LineErrorFallback(it, product)
     IN IF err # "ok"
        THEN /\ Finish(p, err)
             /\ UNCHANGED loc
        ELSE /\ loc' = [loc EXCEPT ![p].items = Append(@, PreparedLine(it, product)),
                                   ![p].idx = IF @ = Len(loc[p].cart) THEN 1 ELSE @ + 1]
             /\ pc' = [pc EXCEPT ![p] =
                         IF loc[p].idx = Len(loc[p].cart) THEN "insert" ELSE "validate"]
             /\ UNCHANGED result
  /\ UNCHANGED <<alerts, alertIndex>>
  /\ UNCHANGED <<stock, sales, payments, paymentsReady, created, ledger, opening>>

Outstanding(onCredit, total, paid) == IF onCredit THEN Max(0, total - paid) ELSE 0
\* FinalPaidAmount without the cap at the total
FinalPaidAmountUncapped(onCredit, total, paid) == IF onCredit THEN paid ELSE total
FinalPaidAmount(onCredit, total, paid) == IF onCredit THEN Min(paid, total) ELSE total
StatusAtCreate(outstanding, finalPaidAmount) ==
  IF outstanding <= 0 THEN "paid"
  ELSE IF finalPaidAmount > 0 THEN "partially_paid" ELSE "pending"

SaleItem(it) ==
  [productRef   |-> IF it.product # NULL /\ isObjectId(it.product) THEN it.product ELSE NULL,
   oldProductId |-> IF it.product # NULL /\ ~isObjectId(it.product) THEN it.product ELSE NULL,
   oldServiceId |-> IF it.type = "service" THEN it.id ELSE NULL,
   qty |-> it.qty, unit_price |-> it.unitPrice, unit_cost |-> it.unitCost,
   line_total |-> it.line_total]

\* the document SaleModel.create is given
SaleDoc(items, onCredit, paid, customerId) ==
  LET total       == SumField(items, "line_total")
      totalItems  == SumField(items, "qty")
      outstanding == Outstanding(onCredit, total, paid)
      finalPaid   == FinalPaidAmount(onCredit, total, paid)
  IN [items |-> [i \in 1..Len(items) |-> SaleItem(items[i])],
      customerRef   |-> IF customerId # NULL /\ isObjectId(customerId)
                        THEN customerId ELSE NULL,
      oldCustomerId |-> IF customerId # NULL /\ ~isObjectId(customerId)
                        THEN customerId ELSE NULL,
      total |-> total, total_items |-> totalItems,
      paid_amount |-> finalPaid, outstanding_amount |-> outstanding,
      on_credit |-> onCredit,
      status |-> StatusAtCreate(outstanding, finalPaid)]

\* SaleModel.create([...], { session }): the insert joins the transaction,
\* or fails and the catch block aborts
InsertSale(p) ==
  /\ pc[p] = "insert"
  /\ \E ok \in BOOLEAN :
       IF ok THEN /\ pc' = [pc EXCEPT ![p] = "stock"]
                  /\ UNCHANGED <<result, loc>>
             ELSE /\ Finish(p, "TransactionAborted")
                  /\ loc' = [loc EXCEPT ![p].failed = TRUE]
  /\ UNCHANGED <<alerts, alertIndex>>
  /\ UNCHANGED <<stock, sales, payments, paymentsReady, created, ledger, opening>>

NextLine(p) ==
  IF loc[p].idx = Len(loc[p].items) THEN "commit" ELSE "stock"

\* stock loop, a line that references no product: nothing to update
SkipLine(p) ==
  /\ pc[p] = "stock"
  /\ loc[p].items[loc[p].idx].product = NULL
  /\ pc' = [pc EXCEPT ![p] = NextLine(p)]
  /\ loc' = [loc EXCEPT ![p].idx = @ + 1]
  /\ UNCHANGED <<alerts, alertIndex>>
  /\ UNCHANGED <<stock, sales, payments, paymentsReady, created, ledger, opening, result>>

\* stock loop, legacy product id: re-read the product outside the session;
\* a failed read is swallowed by the catch
LegacyRead(p) ==
  /\ pc[p] = "stock"
  /\ LET ln == loc[p].items[loc[p].idx]
     IN /\ ln.product # NULL
        /\ ~isObjectId(ln.product)
        /\ \E ok \in BOOLEAN :
             IF ok THEN /\ loc' = [loc EXCEPT ![p].current = stock[ln.product]]
                        /\ pc' = [pc EXCEPT ![p] = "legacyWrite"]
                   ELSE /\ loc' = [loc EXCEPT ![p].idx = @ + 1, ![p].failed = TRUE]
                        /\ pc' = [pc EXCEPT ![p] = NextLine(p)]
  /\ UNCHANGED <<alerts, alertIndex>>
  /\ UNCHANGED <<stock, sales, payments, paymentsReady, created, ledger, opening, result>>

\* LegacyWrite with a null stock read as the number 0
LegacyWriteNullAsZero(p) ==
  /\ pc[p] = "legacyWrite"
  /\ LET ln       == loc[p].items[loc[p].idx]
         current  == loc[p].current
         newStock == Num(Max(0, (IF current # NoNum THEN current[1] ELSE 0) - ln.qty))
     IN \E ok \in BOOLEAN :
          /\ stock' = IF ok THEN [stock EXCEPT ![ln.product] = newStock] ELSE stock
          /\ loc' = [loc EXCEPT ![p].idx = @ + 1, ![p].current = NoNum,
                                ![p].failed = @ \/ ~ok]
  /\ pc' = [pc EXCEPT ![p] = NextLine(p)]
  /\ UNCHANGED <<alerts, alertIndex>>
  /\ UNCHANGED <<sales, payments, paymentsReady, created, ledger, opening, result>>

\* stock loop, legacy product id: write max(0, current - qty) through
\* productosService.actualizarProducto, outside the session; a failed
\* write is swallowed by the catch
LegacyWrite(p) ==
  /\ pc[p] = "legacyWrite"
  /\ LET ln       == loc[p].items[loc[p].idx]
         current  == loc[p].current
         newStock == IF current # NoNum THEN Num(Max(0, current[1] - ln.qty)) ELSE NoNum
     IN \E ok \in BOOLEAN :
          /\ stock' = IF ok /\ newStock # NoNum
                      THEN [stock EXCEPT ![ln.product] = newStock] ELSE stock
          /\ loc' = [loc EXCEPT ![p].idx = @ + 1, ![p].current = NoNum,
                                ![p].failed = @ \/ ~ok]
  /\ pc' = [pc EXCEPT ![p] = NextLine(p)]
  /\ UNCHANGED <<alerts, alertIndex>>
  /\ UNCHANGED <<sales, payments, paymentsReady, created, ledger, opening, result>>

\* stock loop, native product id: updateOne({_id, stock: {$ne: null}},
\* {$inc: {stock: -qty}}, {session}).  The write is pending until the commit.
\* A document another open transaction has written raises a write conflict,
\* which aborts this transaction on the server; the catch swallows the error.
NativeInc(p) ==
  /\ pc[p] = "stock"
  /\ LET ln       == loc[p].items[loc[p].idx]
         conflict == \E q \in Procs \ {p} :
                        /\ loc[q].op = "sale"
                        /\ pc[q] \in {"stock", "legacyWrite", "commit"}
                        /\ loc[q].txInc[ln.product] # 0
     IN /\ ln.product # NULL
        /\ isObjectId(ln.product)
        /\ \E ok \in BOOLEAN :
             loc' = [loc EXCEPT
                       ![p].idx = @ + 1,
                       ![p].txAborted = @ \/ (ok /\ conflict),
                       ![p].failed = @ \/ ~ok \/ conflict,
                       ![p].txInc[ln.product] =
                          IF ok /\ ~conflict /\ stock[ln.product] # NoNum
                          THEN @ - ln.qty ELSE @]
  /\ pc' = [pc EXCEPT ![p] = NextLine(p)]
  /\ UNCHANGED <<alerts, alertIndex>>
  /\ UNCHANGED <<stock, sales, payments, paymentsReady, created, ledger, opening, result>>

\* session.commitTransaction(): the sale and the pending stock increments
\* become visible together, or the commit fails and the catch block aborts
CommitSale(p) ==
  /\ pc[p] = "commit"
  /\ \E ok \in BOOLEAN :
       IF ok /\ ~loc[p].txAborted
       THEN LET id  == created + 1
                doc == SaleDoc(loc[p].items, loc[p].onCredit, loc[p].paid, loc[p].customerId)
            IN /\ sales' = [i \in DOMAIN sales \cup {id} |->
                              IF i = id THEN doc ELSE sales[i]]
               /\ opening' = [i \in DOMAIN sales \cup {id} |->
                              IF i = id THEN doc.paid_amount ELSE opening[i]]
               /\ stock' = [k \in ProductIds |->
                              IF loc[p].txInc[k] # 0
                              THEN Num(stock[k][1] + loc[p].txInc[k]) ELSE stock[k]]
               /\ created' = id
               /\ loc' = [loc EXCEPT ![p].sale = id,
                                     ![p].txInc = [k \in ProductIds |-> 0]]
               /\ pc' = [pc EXCEPT ![p] = "read"]
               /\ UNCHANGED result
       ELSE /\ Finish(p, "TransactionAborted")
            /\ loc' = [loc EXCEPT ![p].txInc = [k \in ProductIds |-> 0]]
            /\ UNCHANGED <<sales, opening, stock, created>>
  /\ UNCHANGED <<alerts, alertIndex>>
  /\ UNCHANGED <<payments, paymentsReady, ledger>>

\* SaleModel.findById after the commit, still inside the try block: a
\* failed read reaches the catch and createSale throws
ReadSale(p) ==
  /\ pc[p] = "read"
  /\ \E ok \in BOOLEAN : Finish(p, IF ok THEN "ok" ELSE "ReadFailed")
  /\ UNCHANGED <<alerts, alertIndex>>
  /\ UNCHANGED <<stock, sales, payments, paymentsReady, created, ledger, opening, loc>>

\* the caller has the outcome; the handler is free again
Return(p) ==
  /\ pc[p] = "done"
  /\ pc' = [pc EXCEPT ![p] = "idle"]
  /\ loc' = [loc EXCEPT ![p] = IdleLoc]
  /\ result' = [result EXCEPT ![p] = "none"]
  /\ UNCHANGED <<alerts, alertIndex>>
  /\ UNCHANGED <<stock, sales, payments, paymentsReady, created, ledger, opening>>

SaleStep(p) ==
  \/ ValidateLine(p)
  \/ InsertSale(p)
  \/ SkipLine(p)
  \/ LegacyRead(p)
  \/ LegacyWrite(p)
  \/ NativeInc(p)
  \/ CommitSale(p)
  \/ ReadSale(p)
  \/ Return(p)

(* ---------------------------- createPayment --------------------------- *)
SaleRefs == 0..MaxSales            \* 0: a missing saleId
Amounts  == {0, 1, MaxAmount}

\* salesService.getSaleById: the sale document, or null
getSaleById(id) == IF id \in DOMAIN sales THEN id ELSE 0

\* `!sale.on_credit`, tested by createPayment on the sale getSaleById
\* returned and by updateSalePayment on the document read in its session
NotOnCreditNever(sale) == FALSE
NotOnCredit(sale) == ~sale.on_credit

\* createPayment with the Payment document written ahead of the checks
CreatePaymentWriteFirst(p, saleId, amount) ==
  /\ pc[p] = "idle"
  /\ Len(ledger) < MaxPayments
  /\ LET l == [op |-> "pay", saleId |-> saleId, amt |-> amount, snap |-> NULL,
               pre |-> [stock |-> stock, sales |-> sales, payments |-> payments]]
     IN /\ loc' = [loc EXCEPT ![p] = l]
        /\ IF saleId = 0 THEN Finish(p, "SaleIdRequired")
           ELSE IF amount <= 0 THEN Finish(p, "InvalidAmount")
           ELSE IF getSaleById(saleId) = 0 THEN Finish(p, "SaleNotFound")
           ELSE IF NotOnCredit(sales[saleId]) THEN Finish(p, "NotOnCredit")
           ELSE /\ pc' = [pc EXCEPT ![p] = "payFind"]
                /\ UNCHANGED result
        /\ payments' = IF saleId # 0 THEN Append(payments, [saleRef |-> saleId,
                                             oldSaleId |-> NULL, amount |-> amount])
                       ELSE payments
  /\ UNCHANGED <<alerts, alertIndex>>
  /\ UNCHANGED <<stock, sales, paymentsReady, created, ledger, opening>>

\* entry of createPayment: the amount check, the sale lookup and the
\* on_credit check, all before any write
CreatePayment(p, saleId, amount) ==
  /\ pc[p] = "idle"
  /\ Len(ledger) < MaxPayments
  /\ LET l == [op |-> "pay", saleId |-> saleId, amt |-> amount, snap |-> NULL,
               pre |-> [stock |-> stock, sales |-> sales, payments |-> payments]]
     IN /\ loc' = [loc EXCEPT ![p] = l]
        /\ IF saleId = 0 THEN Finish(p, "SaleIdRequired")
           ELSE IF amount <= 0 THEN Finish(p, "InvalidAmount")
           ELSE IF getSaleById(saleId) = 0 THEN Finish(p, "SaleNotFound")
           ELSE IF NotOnCredit(sales[saleId]) THEN Finish(p, "NotOnCredit")
           ELSE /\ pc' = [pc EXCEPT ![p] = "payFind"]
                /\ UNCHANGED result
  /\ UNCHANGED <<alerts, alertIndex>>
  /\ UNCHANGED <<stock, sales, payments, paymentsReady, created, ledger, opening>>

NewPaidAmount(sale, amt) == JsOr(sale.paid_amount, 0) + amt
NewOutstanding(sale, amt) ==
  Max(0, JsOr(sale.outstanding_amount, JsOr(sale.total, 0)) - amt)
\* NewStatus with a strict comparison
NewStatusStrict(outstanding) == IF outstanding < 0 THEN "paid" ELSE "partially_paid"
NewStatus(outstanding) == IF outstanding <= 0 THEN "paid" ELSE "partially_paid"

\* PaidSale with the amount also taken off the total
PaidSaleReducedTotal(sale, amt) ==
  [sale EXCEPT !.paid_amount = NewPaidAmount(sale, amt),
               !.outstanding_amount = NewOutstanding(sale, amt),
               !.status = NewStatus(NewOutstanding(sale, amt)),
               !.total = @ - amt]

\* the sale document updateSalePayment saves
PaidSale(sale, amt) ==
  [sale EXCEPT !.paid_amount = NewPaidAmount(sale, amt),
               !.outstanding_amount = NewOutstanding(sale, amt),
               !.status = NewStatus(NewOutstanding(sale, amt))]

\* updateSalePayment, the read in the session: the transaction's snapshot
\* of the sale document, then the existence and on_credit checks
FindSale(p) ==
  /\ pc[p] = "payFind"
  /\ LET id == loc[p].saleId
     IN IF id \notin DOMAIN sales
        THEN /\ Finish(p, "SaleNotFound")
             /\ UNCHANGED loc
        ELSE IF NotOnCredit(sales[id])
        THEN /\ Finish(p, "NotOnCredit")
             /\ UNCHANGED loc
        ELSE /\ loc' = [loc EXCEPT ![p].snap = sales[id]]
             /\ pc' = [pc EXCEPT ![p] = "paySave"]
             /\ UNCHANGED result
  /\ UNCHANGED <<alerts, alertIndex>>
  /\ UNCHANGED <<stock, sales, payments, paymentsReady, created, ledger, opening>>

\* the document has been written since the snapshot was taken, or another
\* open transaction holds a pending write on it
WriteConflict(p) ==
  LET id == loc[p].saleId
  IN \/ sales[id] # loc[p].snap
     \/ \E q \in Procs \ {p} : /\ loc[q].op = "pay"
                               /\ pc[q] = "payCommit"
                               /\ loc[q].saleId = id

\* updateSalePayment, saleDoc.save({ session }): the write is pending until
\* the commit; a write conflict or a failed write reaches the catch, which
\* aborts the transaction
SaveSale(p) ==
  /\ pc[p] = "paySave"
  /\ \E ok \in BOOLEAN :
       IF ok /\ ~WriteConflict(p)
       THEN /\ pc' = [pc EXCEPT ![p] = "payCommit"]
            /\ UNCHANGED result
       ELSE Finish(p, "TransactionAborted")
  /\ UNCHANGED <<alerts, alertIndex>>
  /\ UNCHANGED <<stock, sales, payments, paymentsReady, created, ledger, opening, loc>>

\* updateSalePayment, session.commitTransaction(): the saved document
\* becomes visible, or the commit fails and the catch aborts
CommitPayment(p) ==
  /\ pc[p] = "payCommit"
  /\ LET id == loc[p].saleId
     IN \E ok \in BOOLEAN :
          IF ok
          THEN /\ sales' = [sales EXCEPT ![id] = PaidSale(loc[p].snap, loc[p].amt)]
               /\ ledger' = Append(ledger, [sale |-> id, amount |-> loc[p].amt])
               /\ pc' = [pc EXCEPT ![p] = "payInsert"]
               /\ UNCHANGED result
          ELSE /\ Finish(p, "TransactionAborted")
               /\ UNCHANGED <<sales, ledger>>
  /\ UNCHANGED <<alerts, alertIndex>>
  /\ UNCHANGED <<stock, payments, paymentsReady, created, opening, loc>>

\* salesService.updateSalePayment: one transaction on the sale document
UpdateSalePayment(p) ==
  \/ FindSale(p)
  \/ SaveSale(p)
  \/ CommitPayment(p)

\* the Payment document of a call
PaymentDoc(saleId, amt) == [saleRef |-> saleId, oldSaleId |-> NULL, amount |-> amt]

\* the initialisation check and PaymentModel.create, after the sale's
\* transaction has been committed
InsertPayment(p) ==
  /\ pc[p] = "payInsert"
  /\ IF ~paymentsReady
     THEN /\ Finish(p, "NotInitialized")
          /\ UNCHANGED payments
     ELSE \E ok \in BOOLEAN :
            IF ok
            THEN /\ payments' = Append(payments, PaymentDoc(loc[p].saleId, loc[p].amt))
                 /\ pc' = [pc EXCEPT ![p] = "payRead"]
                 /\ UNCHANGED result
            ELSE /\ Finish(p, "InsertFailed")
                 /\ UNCHANGED payments
  /\ UNCHANGED <<alerts, alertIndex>>
  /\ UNCHANGED <<stock, sales, paymentsReady, created, ledger, opening, loc>>

\* the final getSaleById of createPayment
ReadPayment(p) ==
  /\ pc[p] = "payRead"
  /\ \E ok \in BOOLEAN : Finish(p, IF ok THEN "ok" ELSE "ReadFailed")
  /\ UNCHANGED <<alerts, alertIndex>>
  /\ UNCHANGED <<stock, sales, payments, paymentsReady, created, ledger, opening, loc>>

\* paymentsService.init
PaymentsInit ==
  /\ ~paymentsReady
  /\ paymentsReady' = TRUE
  /\ UNCHANGED <<alerts, alertIndex>>
  /\ UNCHANGED <<stock, sales, payments, created, ledger, opening, pc, loc, result>>

\* the row the SQLite fallback of updateSalePayment writes: paid_amount
\* capped at the total, outstanding_amount recomputed from the total
SqliteUpdate(sale, amt) ==
  LET currentPaid    == JsOr(sale.paid_amount, 0)
      total          == JsOr(sale.total, 0)
      newPaid        == Min(total, currentPaid + amt)
      newOutstanding == Max(0, total - newPaid)
  IN [sale EXCEPT !.paid_amount = newPaid, !.outstanding_amount = newOutstanding]

\* credit sales of one service line as createSale stores them
PathSales ==
  { SaleDoc(<<PreparedLine([id |-> ServiceId, type |-> "service", qty |-> t,
                            precio |-> Price(1)], NotFound)>>, TRUE, paid, NULL) :
      t \in 1..MaxQty, paid \in 0..MaxAmount }

\* updateSalePayment on one credit sale through each of its storage
\* paths: the MongoDB transaction and the SQLite fallback
UpdateSalePaymentPaths(p, sale, amt) ==
  /\ pc[p] = "idle"
  /\ loc' = [loc EXCEPT ![p] = [op |-> "paths", sale |-> sale, amt |-> amt,
                                mongo |-> PaidSale(sale, amt),
                                sqlite |-> SqliteUpdate(sale, amt)]]
  /\ Finish(p, "ok")
  /\ UNCHANGED <<alerts, alertIndex>>
  /\ UNCHANGED <<stock, sales, payments, paymentsReady, created, ledger, opening>>

\* salesService.deleteSalesByCustomerId, called by DELETE
\* /api/customers/:id/sales: SaleModel.deleteMany on the customer filter;
\* the payments collection is not touched
DeleteSalesByCustomerId(customerId) ==
  /\ \A p \in Procs : pc[p] = "idle"
  /\ LET matches(sale) == IF isObjectId(customerId)
                          THEN sale.customerRef = customerId
                          ELSE sale.oldCustomerId = customerId
         kept == { id \in DOMAIN sales : ~matches(sales[id]) }
     IN sales' = [id \in kept |-> sales[id]]
  /\ UNCHANGED <<alerts, alertIndex>>
  /\ UNCHANGED <<stock, payments, paymentsReady, created, ledger, opening, pc, loc,
                 result>>

PayStep(p) ==
  \/ UpdateSalePayment(p)
  \/ InsertPayment(p)
  \/ ReadPayment(p)

(* ------------------------- identity resolution ------------------------ *)
\* Number(id): NaN, or a number held in tenths
NaN    == [k |-> "nan", tenths |-> 0]
N(t)   == [k |-> "num", tenths |-> t]

\* raw ids: typeof id, String(id), mongoose.Types.ObjectId.isValid of that
\* text, Number(id) and !id
RawIds ==
  { [name |-> "hexA",  type |-> "string", text |-> "aaaaaaaaaaaaaaaaaaaaaaaa",
     valid |-> TRUE,  num |-> NaN,    falsy |-> FALSE],
    [name |-> "hexZ",  type |-> "string", text |-> "ffffffffffffffffffffffff",
     valid |-> TRUE,  num |-> NaN,    falsy |-> FALSE],
    [name |-> "dec24", type |-> "string", text |-> "111111111111111111111111",
     valid |-> TRUE,  num |-> N(11110), falsy |-> FALSE],
    [name |-> "s7",    type |-> "string", text |-> "7",
     valid |-> FALSE, num |-> N(70),  falsy |-> FALSE],
    [name |-> "n7",    type |-> "number", text |-> "7",
     valid |-> FALSE, num |-> N(70),  falsy |-> FALSE],
    [name |-> "s0",    type |-> "string", text |-> "0",
     valid |-> FALSE, num |-> N(0),   falsy |-> FALSE],
    [name |-> "n0",    type |-> "number", text |-> "0",
     valid |-> FALSE, num |-> N(0),   falsy |-> TRUE],
    [name |-> "sNeg",  type |-> "string", text |-> "-1",
     valid |-> FALSE, num |-> N(-10), falsy |-> FALSE],
    [name |-> "sDec",  type |-> "string", text |-> "1.5",
     valid |-> FALSE, num |-> N(15),  falsy |-> FALSE],
    [name |-> "sAbc",  type |-> "string", text |-> "abc",
     valid |-> FALSE, num |-> NaN,    falsy |-> FALSE] }

\* a collection: one migrated document (oldId 7) and one native document
IdDocs ==
  { [_id |-> "aaaaaaaaaaaaaaaaaaaaaaaa", oldId |-> N(70)],
    [_id |-> "bbbbbbbbbbbbbbbbbbbbbbbb", oldId |-> NaN] }

ById(id)    == [field |-> "_id",   str |-> id.text, tenths |-> 0]
ByOldId(id) == [field |-> "oldId", str |-> "",      tenths |-> id.num.tenths]

Matches(doc, f) ==
  IF f.field = "_id" THEN doc._id = f.str
  ELSE doc.oldId.k = "num" /\ doc.oldId.tenths = f.tenths

\* the document the first matching filter finds, or null
RECURSIVE Lookup(_)
Lookup(filters) ==
  IF filters = <<>> THEN NULL
  ELSE IF \E d \in IdDocs : Matches(d, filters[1])
       THEN (CHOOSE d \in IdDocs : Matches(d, filters[1]))._id
       ELSE Lookup(Tail(filters))

Resolution(kind, filters) ==
  [kind |-> kind, filters |-> filters, found |-> Lookup(filters)]

\* productosService.obtenerProductoPorId
ResolveProduct(id) ==
  IF id.falsy THEN Resolution("NONE", <<>>)
  ELSE IF id.type = "string" /\ id.valid THEN Resolution("OPAQUE", <<ById(id)>>)
  ELSE IF id.num.k = "num" THEN Resolution("LEGACY_NUMERIC", <<ByOldId(id)>>)
  ELSE Resolution("UNRECOGNIZED", <<ById(id)>>)

\* customersService.getCustomerById
ResolveCustomer(id) ==
  IF id.falsy THEN Resolution("NONE", <<>>)
  ELSE IF id.type = "string" /\ id.valid THEN Resolution("OPAQUE", <<ById(id)>>)
  ELSE IF id.num.k = "num" THEN Resolution("LEGACY_NUMERIC", <<ByOldId(id)>>)
  ELSE Resolution("UNRECOGNIZED", <<ById(id)>>)

\* salesService.getSaleById: isObjectId(String(id))
ResolveSale(id) ==
  IF id.falsy THEN Resolution("NONE", <<>>)
  ELSE IF id.valid THEN Resolution("OPAQUE", <<ById(id)>>)
  ELSE IF id.num.k = "num" THEN Resolution("LEGACY_NUMERIC", <<ByOldId(id)>>)
  ELSE Resolution("UNRECOGNIZED", <<ById(id)>>)

\* the lookup of salesService.updateSalePayment: findById when the id has
\* the ObjectId shape, then, with nothing found and a numeric id, findOne by
\* oldId; no test of !id and no literal fallback
ResolveSaleInTx(id) ==
  IF id.valid
  THEN Resolution("OPAQUE",
                  IF id.num.k = "num" THEN <<ById(id), ByOldId(id)>> ELSE <<ById(id)>>)
  ELSE IF id.num.k = "num" THEN Resolution("LEGACY_NUMERIC", <<ByOldId(id)>>)
  ELSE Resolution("NONE", <<>>)

\* one raw id given to each of the four lookups
ResolveId(p, id) ==
  /\ pc[p] = "idle"
  /\ loc' = [loc EXCEPT ![p] = [op |-> "resolve", id |-> id,
                                product  |-> ResolveProduct(id),
                                customer |-> ResolveCustomer(id),
                                sale     |-> ResolveSale(id),
                                saleTx   |-> ResolveSaleInTx(id)]]
  /\ Finish(p, "ok")
  /\ UNCHANGED <<alerts, alertIndex>>
  /\ UNCHANGED <<stock, sales, payments, paymentsReady, created, ledger, opening>>

(* ------------------------------- alerts ------------------------------- *)
LOW_STOCK_THRESHOLD == 5
EXPIRY_DAYS == 30

\* products as listarProductos returns them, sorted by nombre
ProductOrder == <<"P1", "P2", "P3", "P4">>

\* vencimiento of each product in days from now, or none
Vencimiento == [k \in ProductIds |->
                  CASE k = "P1" -> Num(10)
                    [] k = "P3" -> Num(20)
                    [] k = "P4" -> Num(90)
                    [] OTHER    -> NoNum]

\* the alerts checkAndCreateAlerts asks for one product: stock, then expiry
ProductChecks(k, stk) ==
  (IF stk[k] # NoNum /\ stk[k][1] <= LOW_STOCK_THRESHOLD
   THEN <<[productRef |-> k, type |-> "stock"]>> ELSE <<>>)
  \o
  (IF Vencimiento[k] # NoNum /\ Vencimiento[k][1] <= EXPIRY_DAYS
   THEN <<[productRef |-> k, type |-> "expiry"]>> ELSE <<>>)

RECURSIVE DueChecks(_, _)
DueChecks(prods, stk) ==
  IF prods = <<>> THEN <<>>
  ELSE ProductChecks(Head(prods), stk) \o DueChecks(Tail(prods), stk)

\* Alert.findOne({type, resolvedAt: null, productRef})
OpenAlerts(q) ==
  { i \in 1..Len(alerts) : /\ ~alerts[i].resolved
                           /\ alerts[i].productRef = q.productRef
                           /\ alerts[i].type = q.type }

AlertDoc(q) == [productRef |-> q.productRef, type |-> q.type, resolved |-> FALSE]

\* init of alertsService: the model is registered and the indexes are made;
\* one version of init makes the indexes on open alerts unique, the others
\* make plain ones or none
AlertsInit(unique) ==
  /\ alertIndex = "none"
  /\ alertIndex' = IF unique THEN "unique" ELSE "plain"
  /\ UNCHANGED <<stock, sales, payments, paymentsReady, created, ledger, opening,
                 pc, loc, result, alerts>>

\* entry of checkAndCreateAlerts: the products are read once
CheckAndCreateAlerts(p) ==
  /\ pc[p] = "idle"
  /\ alertIndex # "none"
  /\ pc' = [pc EXCEPT ![p] = "alertFind"]
  /\ loc' = [loc EXCEPT ![p] = [op |-> "alerts",
                                queue |-> DueChecks(ProductOrder, stock),
                                created |-> 0]]
  /\ UNCHANGED <<stock, sales, payments, paymentsReady, created, ledger, opening,
                 result, alerts, alertIndex>>

\* createAlertIfNotExists, the lookup: an open alert of the product and type
\* is returned as it is
AlertFind(p) ==
  /\ pc[p] = "alertFind"
  /\ IF loc[p].queue = <<>>
     THEN /\ Finish(p, "ok")
          /\ UNCHANGED loc
     ELSE /\ IF OpenAlerts(Head(loc[p].queue)) # {}
             THEN /\ loc' = [loc EXCEPT ![p].queue = Tail(@),
                                        ![p].created = @ + 1]
                  /\ UNCHANGED pc
             ELSE /\ pc' = [pc EXCEPT ![p] = "alertCreate"]
                  /\ UNCHANGED loc
          /\ UNCHANGED result
  /\ UNCHANGED <<stock, sales, payments, paymentsReady, created, ledger, opening,
                 alerts, alertIndex>>

\* createAlertIfNotExists, Alert.create: a unique index refuses a second
\* open alert of the product and type
AlertCreate(p) ==
  /\ pc[p] = "alertCreate"
  /\ Len(alerts) < MaxAlerts
  /\ IF alertIndex = "unique" /\ OpenAlerts(Head(loc[p].queue)) # {}
     THEN /\ pc' = [pc EXCEPT ![p] = "alertRefind"]
          /\ UNCHANGED <<alerts, loc>>
     ELSE /\ alerts' = Append(alerts, AlertDoc(Head(loc[p].queue)))
          /\ loc' = [loc EXCEPT ![p].queue = Tail(@), ![p].created = @ + 1]
          /\ pc' = [pc EXCEPT ![p] = "alertFind"]
  /\ UNCHANGED <<stock, sales, payments, paymentsReady, created, ledger, opening,
                 result, alertIndex>>

\* createAlertIfNotExists after a duplicate-key error: the open alert is
\* looked up again; with none the error is thrown and checkAndCreateAlerts
\* leaves the product
AlertRefind(p) ==
  /\ pc[p] = "alertRefind"
  /\ LET q == Head(loc[p].queue)
     IN IF OpenAlerts(q) # {}
        THEN loc' = [loc EXCEPT ![p].queue = Tail(@), ![p].created = @ + 1]
        ELSE loc' = [loc EXCEPT ![p].queue =
                       SelectSeq(@, LAMBDA c : c.productRef # q.productRef)]
  /\ pc' = [pc EXCEPT ![p] = "alertFind"]
  /\ UNCHANGED <<stock, sales, payments, paymentsReady, created, ledger, opening,
                 result, alerts, alertIndex>>

AlertStep(p) ==
  \/ AlertFind(p)
  \/ AlertCreate(p)
  \/ AlertRefind(p)

\* resolveAlert: updateOne sets resolvedAt on the alert of that id
ResolveAlert(id) ==
  /\ id \in 1..Len(alerts)
  /\ ~alerts[id].resolved
  /\ alerts' = [alerts EXCEPT ![id].resolved = TRUE]
  /\ UNCHANGED <<stock, sales, payments, paymentsReady, created, ledger, opening,
                 pc, loc, result, alertIndex>>

(* --------------------------- specifications --------------------------- *)
Init ==
  /\ stock = InitStock
  /\ sales = <<>>
  /\ payments = <<>>
  /\ paymentsReady = FALSE
  /\ created = 0
  /\ ledger = <<>>
  /\ opening = <<>>
  /\ alerts = <<>>
  /\ alertIndex = "none"
  /\ pc = [p \in Procs |-> "idle"]
  /\ loc = [p \in Procs |-> IdleLoc]
  /\ result = [p \in Procs |-> "none"]

\* the sale engine, one request at a time
Next ==
  \/ \E cart \in Carts, onCredit \in BOOLEAN :
        CreateSale(1, cart, onCredit, IF onCredit THEN 1 ELSE -1, NULL)
  \/ SaleStep(1)

Spec == Init /\ [][Next]_vars

\* the credit ledger, one request at a time: sales of service lines under
\* every credit option, and payments against them
NextLedger ==
  \/ \E cart \in ServiceCarts, onCredit \in BOOLEAN, paidAmount \in PaidAmounts :
        CreateSale(1, cart, onCredit, paidAmount, NULL)
  \/ ValidateLine(1)
  \/ InsertSale(1)
  \/ SkipLine(1)
  \/ CommitSale(1)
  \/ ReadSale(1)
  \/ Return(1)
  \/ \E saleId \in SaleRefs, amount \in Amounts : CreatePayment(1, saleId, amount)
  \/ PayStep(1)
  \/ PaymentsInit

SpecLedger == Init /\ [][NextLedger]_vars

\* two concurrent createSale requests
NextConc ==
  \E p \in Procs :
    \/ \E cart \in ConcCarts : CreateSale(p, cart, FALSE, 0, NULL)
    \/ ValidateLine(p)
    \/ InsertSale(p)
    \/ LegacyRead(p)
    \/ LegacyWrite(p)
    \/ NativeInc(p)
    \/ CommitSale(p)
    \/ ReadSale(p)
    \/ Return(p)

SpecConc == Init /\ [][NextConc]_vars

\* credit sales of one service line, and two concurrent createPayment
\* requests against them
NextPay ==
  \/ \E cart \in ServiceCarts : CreateSale(1, cart, TRUE, 0, NULL)
  \/ ValidateLine(1)
  \/ InsertSale(1)
  \/ SkipLine(1)
  \/ CommitSale(1)
  \/ ReadSale(1)
  \/ PaymentsInit
  \/ \E p \in Procs :
        \/ \E saleId \in 1..MaxSales, amount \in {1, MaxAmount} :
              CreatePayment(p, saleId, amount)
        \/ PayStep(p)
        \/ Return(p)

SpecPay == Init /\ [][NextPay]_vars

\* the customers of the sales-history route: one with sales, one without
RouteCustomers == {LegacyCustomer, "8"}

\* credit sales for customers, payments against them, and the deletion of
\* a customer's sales, one request at a time
NextDelete ==
  \/ \E cart \in ServiceCarts, c \in {NULL, NativeCustomer, LegacyCustomer} :
        CreateSale(1, cart, TRUE, 0, c)
  \/ ValidateLine(1)
  \/ InsertSale(1)
  \/ SkipLine(1)
  \/ CommitSale(1)
  \/ ReadSale(1)
  \/ Return(1)
  \/ \E saleId \in 1..MaxSales : CreatePayment(1, saleId, 1)
  \/ PayStep(1)
  \/ PaymentsInit
  \/ \E c \in RouteCustomers : DeleteSalesByCustomerId(c)

SpecDelete == Init /\ [][NextDelete]_vars

\* lookups by raw id
NextIdentity ==
  \E p \in Procs :
    \/ \E id \in RawIds : ResolveId(p, id)
    \/ Return(p)

SpecIdentity == Init /\ [][NextIdentity]_vars

\* updateSalePayment requests, each run through both storage paths
NextPaths ==
  \E p \in Procs :
    \/ \E sale \in PathSales, amt \in {1, MaxAmount} :
          UpdateSalePaymentPaths(p, sale, amt)
    \/ Return(p)

SpecPaths == Init /\ [][NextPaths]_vars

\* the sale engine of the createSale that keeps the SQLite fallback, on
\* its MongoDB path, one request of one cart line at a time
NextFallback ==
  \/ \E it \in CartItems, onCredit \in BOOLEAN :
        CreateSale(1, <<it>>, onCredit, IF onCredit THEN 1 ELSE -1, NULL)
  \/ ValidateLineFallback(1)
  \/ InsertSale(1)
  \/ SkipLine(1)
  \/ LegacyRead(1)
  \/ LegacyWrite(1)
  \/ NativeInc(1)
  \/ CommitSale(1)
  \/ ReadSale(1)
  \/ Return(1)

SpecFallback == Init /\ [][NextFallback]_vars

\* alert runs (cron job, start-up run, manual generate) and resolutions
NextAlerts ==
  \/ \E unique \in BOOLEAN : AlertsInit(unique)
  \/ \E p \in Procs :
       \/ CheckAndCreateAlerts(p)
       \/ AlertStep(p)
       \/ Return(p)
  \/ \E id \in 1..MaxAlerts : ResolveAlert(id)

SpecAlerts == Init /\ [][NextAlerts]_vars

(* ------------------------------- claims ------------------------------- *)
AtRest == \A p \in Procs : pc[p] \in {"idle", "done"}

RECURSIVE SumPayments(_, _)
SumPayments(ps, id) ==
  IF ps = <<>> THEN 0
  ELSE (IF ps[1].saleRef = id THEN ps[1].amount ELSE 0) + SumPayments(Tail(ps), id)

ValidationErrors ==
  {"EmptyCart", "InvalidQuantity", "ProductNotFound", "InsufficientStock", "InvalidPrice"}

\* units of product k in the lines of the committed sales
RECURSIVE SoldIn(_, _)
SoldIn(items, k) ==
  IF items = <<>> THEN 0
  ELSE (IF k \in {items[1].productRef, items[1].oldProductId} THEN items[1].qty ELSE 0)
       + SoldIn(Tail(items), k)

RECURSIVE SoldUpTo(_, _)
SoldUpTo(n, k) ==
  IF n = 0 THEN 0
  ELSE (IF n \in DOMAIN sales THEN SoldIn(sales[n].items, k) ELSE 0) + SoldUpTo(n - 1, k)

Sold(k) == SoldUpTo(created, k)

\* C1: every Sale satisfies 0 <= paid_amount <= total after every committed
\* operation.
C1_PaidWithinTotal ==
  \A id \in DOMAIN sales :
    /\ 0 <= sales[id].paid_amount
    /\ sales[id].paid_amount <= sales[id].total

\* C2: every Sale with on_credit = true has paid_amount + outstanding_amount
\* equal to total, after createSale and after any number of payments.
C2_CreditBalance ==
  \A id \in DOMAIN sales :
    sales[id].on_credit =>
      sales[id].paid_amount + sales[id].outstanding_amount = sales[id].total

\* C3: the status of every Sale is the one the status table assigns to its
\* amounts: paid iff outstanding_amount = 0, partially_paid iff
\* 0 < outstanding_amount < total, pending iff paid_amount = 0 and
\* outstanding_amount > 0.
C3_StatusTable ==
  \A id \in DOMAIN sales :
    LET s == sales[id]
    IN /\ (s.status = "paid") <=> (s.outstanding_amount = 0)
       /\ (s.status = "partially_paid") <=>
             (0 < s.outstanding_amount /\ s.outstanding_amount < s.total)
       /\ (s.status = "pending") <=> (s.paid_amount = 0 /\ s.outstanding_amount > 0)

\* a sale left partially paid by a payment, next to a sale that is pending
C3_Witness ==
  /\ \E i \in 1..Len(ledger) : sales[ledger[i].sale].status = "partially_paid"
  /\ \E id \in DOMAIN sales : sales[id].status = "pending"

StatusRank(st) == IF st = "pending" THEN 0 ELSE IF st = "partially_paid" THEN 1 ELSE 2

\* C4: a Sale's status only moves forward along pending -> partially_paid ->
\* paid, and a Sale whose outstanding_amount is 0 never changes again.
C4_PaidIsTerminal ==
  [][\A id \in DOMAIN sales :
        /\ StatusRank(sales'[id].status) >= StatusRank(sales[id].status)
        /\ sales[id].outstanding_amount = 0 => sales'[id] = sales[id]]_vars

\* C5: for every Sale, the amounts of the Payment records that reference it
\* sum to its paid_amount minus the paid_amount stored at creation (stated
\* for the states in which no request is in progress).
C5_PaymentsSum ==
  AtRest =>
    \A id \in DOMAIN sales :
      SumPayments(payments, id) = sales[id].paid_amount - opening[id]

\* C6: recordPayment is all-or-nothing: once the call is over, every
\* committed update of a Sale has its Payment record and every Payment
\* record has its update, in the same order.
C6_AllOrNothing ==
  AtRest =>
    /\ Len(payments) = Len(ledger)
    /\ \A i \in 1..Len(ledger) :
         /\ payments[i].saleRef = ledger[i].sale
         /\ payments[i].amount = ledger[i].amount

\* C7: when a write inside createSale's unit of work has failed (the Sale
\* insert or a stock decrement), createSale reports a failure, no Sale has
\* become visible and no stock has changed.
C7_RollbackOnWriteFailure ==
  \A p \in Procs :
    (pc[p] = "done" /\ loc[p].op = "sale" /\ loc[p].failed) =>
      /\ result[p] # "ok"
      /\ sales = loc[p].pre.sales
      /\ stock = loc[p].pre.stock

\* C8: whenever createSale returns an error, no Sale has been persisted and
\* no stock has been altered.
C8_ErrorLeavesNothing ==
  \A p \in Procs :
    (pc[p] = "done" /\ loc[p].op = "sale" /\ result[p] # "ok") =>
      /\ sales = loc[p].pre.sales
      /\ stock = loc[p].pre.stock

\* C9: a createSale call that fails validation leaves every product's stock
\* and the set of Sales unchanged, whichever cart line triggers the failure.
C9_FailedValidationKeepsState ==
  \A p \in Procs :
    (pc[p] = "done" /\ loc[p].op = "sale" /\ result[p] \in ValidationErrors) =>
      /\ sales = loc[p].pre.sales
      /\ stock = loc[p].pre.stock

\* a validation failure on the second line of a cart, after an earlier sale
C9_Witness ==
  /\ pc[1] = "done"
  /\ loc[1].op = "sale"
  /\ result[1] = "InsufficientStock"
  /\ loc[1].idx = 2
  /\ sales # <<>>

\* C10: two createSale calls on the same product that run concurrently and
\* both commit, with no failed write, leave the product's stock at its
\* initial value minus the sum of both quantities.
C10_NoLostDecrement ==
  LET bothCommitted ==
        /\ \A p \in Procs : /\ pc[p] = "done"
                            /\ loc[p].op = "sale"
                            /\ result[p] = "ok"
                            /\ ~loc[p].failed
                            /\ loc[p].pre.sales = <<>>
                            /\ loc[p].pre.stock = InitStock
        /\ \A p, q \in Procs : loc[p].cart[1].id = loc[q].cart[1].id
  IN bothCommitted =>
       \A k \in ProductIds :
         stock[k] # NoNum => stock[k][1] = InitStock[k][1] - Sold(k)

\* the outcomes of the createPayment calls of the handlers in S, applied to
\* the sale document d one after another, in every order
SequentialOutcomes(d, S) ==
  IF S = {} THEN {d}
  ELSE IF Cardinality(S) = 1
       THEN { PaidSale(d, loc[p].amt) : p \in S }
       ELSE UNION { { PaidSale(PaidSale(d, loc[p].amt), loc[q].amt) :
                        q \in S \ {p} } : p \in S }

\* C11: when two concurrent createPayment calls against the same Sale are
\* over, the Sale's paid_amount is its value before them plus the amounts
\* of the calls that succeeded, and the Sale is what some sequential order
\* of the successful calls leaves.
C11_PaymentsSerialized ==
  LET bothOver ==
        /\ \A p \in Procs : pc[p] = "done" /\ loc[p].op = "pay"
        /\ \A p \in Procs : /\ loc[p].saleId = loc[1].saleId
                            /\ loc[p].pre.sales = loc[1].pre.sales
        /\ loc[1].saleId \in DOMAIN loc[1].pre.sales
  IN bothOver =>
       LET id     == loc[1].saleId
           before == loc[1].pre.sales[id]
           S      == { p \in Procs : result[p] = "ok" }
           paidBy(p) == IF p \in S THEN loc[p].amt ELSE 0
       IN /\ sales[id].paid_amount = before.paid_amount + paidBy(1) + paidBy(2)
          /\ sales[id] \in SequentialOutcomes(before, S)
\* C12: every Payment record references a Sale that is on credit, and a
\* createPayment call with a valid amount against a Sale that is not on
\* credit fails with NotOnCredit and creates no Payment.
C12_PaymentOnlyOnCredit ==
  /\ \A i \in 1..Len(payments) :
        /\ payments[i].saleRef \in DOMAIN sales
        /\ sales[payments[i].saleRef].on_credit
  /\ \A p \in Procs :
        (/\ pc[p] = "done"
         /\ loc[p].op = "pay"
         /\ loc[p].amt > 0
         /\ loc[p].saleId \in DOMAIN loc[p].pre.sales
         /\ ~loc[p].pre.sales[loc[p].saleId].on_credit) =>
          /\ result[p] = "NotOnCredit"
          /\ payments = loc[p].pre.payments

\* a payment against a cash sale is rejected after a payment against a
\* credit sale has been recorded
C12_Witness ==
  /\ pc[1] = "done"
  /\ loc[1].op = "pay"
  /\ result[1] = "NotOnCredit"
  /\ loc[1].amt > 0
  /\ payments # <<>>

\* C13: a successful createPayment(sale, amount) leaves the Sale with its
\* previous paid_amount plus amount and with outstanding_amount
\* max(0, previous outstanding_amount - amount), and has created exactly one
\* Payment, with that amount and referencing that Sale.
C13_PaymentEffect ==
  \A p \in Procs :
    (pc[p] = "done" /\ loc[p].op = "pay" /\ result[p] = "ok") =>
      LET id     == loc[p].saleId
          before == loc[p].pre.sales[id]
      IN /\ sales[id].paid_amount = before.paid_amount + loc[p].amt
         /\ sales[id].outstanding_amount =
               Max(0, before.outstanding_amount - loc[p].amt)
         /\ payments = Append(loc[p].pre.payments, PaymentDoc(id, loc[p].amt))

\* C14: a createPayment call that fails with InvalidAmount, SaleNotFound or
\* NotOnCredit leaves every Sale and the Payment records unchanged.
C14_RejectedPaymentKeepsState ==
  \A p \in Procs :
    (/\ pc[p] = "done"
     /\ loc[p].op = "pay"
     /\ result[p] \in {"InvalidAmount", "SaleNotFound", "NotOnCredit"}) =>
      /\ sales = loc[p].pre.sales
      /\ payments = loc[p].pre.payments

\* an invalid amount against a credit sale that already has a payment
C14_Witness ==
  /\ pc[1] = "done"
  /\ loc[1].op = "pay"
  /\ result[1] = "InvalidAmount"
  /\ loc[1].saleId \in DOMAIN sales
  /\ sales[loc[1].saleId].on_credit
  /\ \E i \in 1..Len(payments) : payments[i].saleRef = loc[1].saleId
RECURSIVE SumLines(_)
SumLines(items) ==
  IF items = <<>> THEN 0
  ELSE items[1].qty * items[1].unit_price + SumLines(Tail(items))

\* C15: every persisted Sale has total equal to the sum over its lines of
\* qty * unit_price and total_items equal to the sum of the lines'
\* quantities.
C15_Totals ==
  \A id \in DOMAIN sales :
    /\ sales[id].total = SumLines(sales[id].items)
    /\ sales[id].total_items = SumField(sales[id].items, "qty")

\* a returned sale of two lines with different unit prices and quantities
C15_Witness ==
  /\ pc[1] = "done"
  /\ loc[1].op = "sale"
  /\ result[1] = "ok"
  /\ LET its == sales[loc[1].sale].items
     IN /\ Len(its) = 2
        /\ its[1].qty > 1
        /\ its[1].unit_price > 1
        /\ its[2].unit_price # its[1].unit_price

\* C16: a Sale created on credit has paid_amount min(initialPaidAmount,
\* total) and outstanding_amount max(0, total - paid_amount); a Sale created
\* not on credit has paid_amount = total, outstanding_amount = 0 and status
\* paid whatever initialPaidAmount was, and keeps them in every later state.
C16_AmountsAtCreate ==
  /\ \A id \in DOMAIN sales :
        ~sales[id].on_credit =>
          /\ sales[id].paid_amount = sales[id].total
          /\ sales[id].outstanding_amount = 0
          /\ sales[id].status = "paid"
  /\ \A p \in Procs :
        (pc[p] \in {"read", "done"} /\ loc[p].op = "sale" /\ loc[p].sale # 0) =>
          LET s == sales[loc[p].sale]
          IN /\ s.on_credit = loc[p].onCredit
             /\ loc[p].onCredit =>
                   /\ s.paid_amount = Min(loc[p].paid, s.total)
                   /\ s.outstanding_amount = Max(0, s.total - s.paid_amount)

\* a credit sale created with more than its total paid, next to a cash
\* sale
C16_Witness ==
  /\ pc[1] = "done"
  /\ loc[1].op = "sale"
  /\ result[1] = "ok"
  /\ loc[1].onCredit
  /\ loc[1].paid > sales[loc[1].sale].total
  /\ \E id \in DOMAIN sales : ~sales[id].on_credit /\ opening[id] > 0

\* C17: once a Sale is committed by a call none of whose writes failed,
\* with no other request running, every tracked product's stock is its
\* stock before the call minus the quantities of the Sale's lines that
\* reference it.
C17_StockDecrement ==
  \A p \in Procs :
    (/\ pc[p] \in {"read", "done"}
     /\ loc[p].op = "sale"
     /\ loc[p].sale # 0
     /\ ~loc[p].failed) =>
      \A k \in ProductIds :
        loc[p].pre.stock[k] # NoNum =>
          stock[k] = Num(loc[p].pre.stock[k][1] - SoldIn(sales[loc[p].sale].items, k))

\* the cart line is a product line whose product tracks stock st and has
\* less of it than the line asks for
Short(it, st) ==
  /\ it.type = "product"
  /\ it.id \in ProductIds
  /\ it.qty > 0
  /\ st[it.id] # NoNum
  /\ st[it.id][1] < it.qty

\* C18: createSale rejects a cart line with InsufficientStock exactly when
\* its product tracks stock and has less than the line's quantity: the
\* lines validated before the failing one are not short, and the failing
\* line is reported InsufficientStock iff it is short.
C18_InsufficientStockExactly ==
  \A p \in Procs :
    (/\ pc[p] = "done"
     /\ loc[p].op = "sale"
     /\ result[p] \notin {"EmptyCart", "NegativePaid"}) =>
      LET failedAt == IF result[p] \in ValidationErrors
                      THEN loc[p].idx ELSE Len(loc[p].cart) + 1
      IN \A i \in 1..Len(loc[p].cart) :
           /\ i < failedAt => ~Short(loc[p].cart[i], loc[p].pre.stock)
           /\ i = failedAt =>
                 ((result[p] = "InsufficientStock") <=>
                    Short(loc[p].cart[i], loc[p].pre.stock))

\* C19: the products' stock changes only in the step that commits the
\* Sale's transaction, together with the Sale.
C19_StockOnlyAtCommit ==
  [][stock' # stock =>
       \E p \in Procs : /\ pc[p] = "commit"
                         /\ pc'[p] = "read"
                         /\ sales' # sales]_vars

\* C20: a product whose stock is untracked still has a null stock, whatever
\* Sales have been committed.
C20_UntrackedStaysNull ==
  \A k \in ProductIds : InitStock[k] = NoNum => stock[k] = NoNum

\* committed sales reference the untracked product of either identity
\* scheme
C20_Witness ==
  /\ \E id \in DOMAIN sales : sales[id].items[1].productRef = "P3"
  /\ \E id \in DOMAIN sales : sales[id].items[1].oldProductId = "P4"
\* C21: every Payment record references a Sale that exists.
C21_PaymentHasSale ==
  \A i \in 1..Len(payments) : payments[i].saleRef \in DOMAIN sales
\* C22: every line of every persisted Sale has qty > 0, unit_price >= 0,
\* unit_cost >= 0 and line_total = qty * unit_price.
C22_LineBounds ==
  \A id \in DOMAIN sales :
    \A i \in 1..Len(sales[id].items) :
      LET ln == sales[id].items[i]
      IN /\ ln.qty > 0
         /\ ln.unit_price >= 0
         /\ ln.unit_cost >= 0
         /\ ln.line_total = ln.qty * ln.unit_price
\* C26: a committed createSale never leaves the stock of a tracked product
\* below 0 (one request at a time).
C26_StockNeverNegative ==
  \A k \in ProductIds : stock[k] # NoNum => stock[k][1] >= 0

\* C27: after a successful createPayment the Sale's outstanding_amount is
\* at most what it was before the call.
C27_OutstandingNeverGrows ==
  \A p \in Procs :
    (pc[p] = "done" /\ loc[p].op = "pay" /\ result[p] = "ok") =>
      sales[loc[p].saleId].outstanding_amount
        <= loc[p].pre.sales[loc[p].saleId].outstanding_amount

\* C28: a createPayment call that fails because the payments store is not
\* initialized leaves the target Sale as it was.
C28_UninitializedKeepsSale ==
  \A p \in Procs :
    (pc[p] = "done" /\ loc[p].op = "pay" /\ result[p] = "NotInitialized") =>
      sales[loc[p].saleId] = loc[p].pre.sales[loc[p].saleId]
\* C25: a createPayment call changes, on the target Sale, only paid_amount,
\* outstanding_amount and status; the Sale's lines, total, total_items,
\* on_credit and customer reference, every other Sale and every product are
\* as they were before the call.
C25_PaymentFrame ==
  \A p \in Procs :
    (loc[p].op = "pay" /\ pc[p] \in {"payInsert", "payRead", "done"}) =>
      /\ stock = loc[p].pre.stock
      /\ DOMAIN sales = DOMAIN loc[p].pre.sales
      /\ \A id \in DOMAIN sales :
            LET before == loc[p].pre.sales[id]
            IN IF id = loc[p].saleId
               THEN sales[id] =
                      [before EXCEPT !.paid_amount = sales[id].paid_amount,
                                     !.outstanding_amount = sales[id].outstanding_amount,
                                     !.status = sales[id].status]
               ELSE sales[id] = before

\* a successful payment on the sale of a customer, next to another sale
C25_Witness ==
  /\ pc[1] = "done"
  /\ loc[1].op = "pay"
  /\ result[1] = "ok"
  /\ sales[loc[1].saleId].oldCustomerId = LegacyCustomer
  /\ sales[loc[1].saleId].paid_amount # loc[1].pre.sales[loc[1].saleId].paid_amount
  /\ Cardinality(DOMAIN sales) = 2
\* C29: for the same credit Sale and the same amount, the MongoDB path and
\* the SQLite path of updateSalePayment give the same new paid_amount and
\* the same new outstanding_amount.
C29_PathsAgree ==
  \A p \in Procs :
    (pc[p] = "done" /\ loc[p].op = "paths") =>
      /\ loc[p].mongo.paid_amount = loc[p].sqlite.paid_amount
      /\ loc[p].mongo.outstanding_amount = loc[p].sqlite.outstanding_amount
\* C23: every raw id is classified the same way, with the same filter, by
\* the product lookup, the customer lookup, getSaleById and the lookup of
\* updateSalePayment, and a Sale getSaleById finds is the Sale
\* updateSalePayment updates.
C23_UniformResolution ==
  \A p \in Procs :
    (pc[p] = "done" /\ loc[p].op = "resolve") =>
      /\ loc[p].customer = loc[p].product
      /\ loc[p].sale = loc[p].product
      /\ loc[p].saleTx.kind = loc[p].sale.kind
      /\ loc[p].saleTx.filters = loc[p].sale.filters
      /\ loc[p].sale.found # NULL => loc[p].saleTx.found = loc[p].sale.found

\* the text parses as a non-negative integer
NonNegativeInteger(id) ==
  id.num.k = "num" /\ id.num.tenths >= 0 /\ id.num.tenths % 10 = 0

\* C24: the product and customer lookups classify an id OPAQUE iff it has
\* the native identifier shape, otherwise LEGACY_NUMERIC iff it parses as a
\* non-negative integer (0 included, looked up by the legacy-id field),
\* otherwise UNRECOGNIZED (looked up by literal equality on the primary id).
C24_Classification ==
  \A p \in Procs :
    (pc[p] = "done" /\ loc[p].op = "resolve") =>
      LET id       == loc[p].id
          expected == IF id.valid THEN Resolution("OPAQUE", <<ById(id)>>)
                      ELSE IF NonNegativeInteger(id)
                           THEN Resolution("LEGACY_NUMERIC", <<ByOldId(id)>>)
                      ELSE Resolution("UNRECOGNIZED", <<ById(id)>>)
      IN /\ loc[p].product = expected
         /\ loc[p].customer = expected

\* C30: after any interleaving of checkAndCreateAlerts runs and resolveAlert
\* calls there is at most one unresolved alert per product and type
C30_OneOpenAlertPerKey ==
  \A i, j \in 1..Len(alerts) :
    ( /\ ~alerts[i].resolved /\ ~alerts[j].resolved
      /\ alerts[i].productRef = alerts[j].productRef
      /\ alerts[i].type = alerts[j].type ) => i = j

\* with the unique indexes in place the alerts stay one per product and type
C30_UniqueIndexKeepsOne == alertIndex = "unique" => C30_OneOpenAlertPerKey

====
